---- MODULE Spec2Model ----
(***************************************************************************)
(* The stake-pool data provider of plugin-solana (StakeProtocolProvider)   *)
(* and its callers: fetchWithRetry, the node-cache entry "stake_pool_data",*)
(* fetchPoolData, getStakePoolInfo and stakeProtocolProvider.get.          *)
(*                                                                         *)
(* Every async function is cut at its awaits: one action is the code that  *)
(* runs between two awaits of one invocation.  Time is the variable now    *)
(* (milliseconds, Date.now()); setTimeout and the cache's ttl read it.     *)
(***************************************************************************)
EXTENDS Integers, Sequences, FiniteSets, TLC

\* PROVIDER_CONFIG
MAX_RETRIES == 3
RETRY_DELAY == 2000
CACHE_TTL == 300

\* Bounds of the model.
MaxTime == 460000
MaxCalls == 2
MaxLoops == 1
MaxRuns == 1

\* The invocations that may overlap: two handlers of the agent runtime.
Callers == {"h1", "h2"}

\* The provider instances: the module-level one of the action files, and the
\* one each stakeProtocolProvider.get call constructs (named by its caller).
ModuleInstance == "module"
Instances == {ModuleInstance} \cup Callers

cacheKey == "stake_pool_data"
PoolInfoUrl == "/api/stake-pool-info"

(***************************************************************************)
(* JavaScript values: undefined, null, the objects a body parses to, the   *)
(* errors, and the provider's apology string.                              *)
(***************************************************************************)
Val(t, x, n) == [t |-> t, x |-> x, n |-> n]
UNDEFINED == Val("undefined", "", 0)
NULL == Val("null", "", 0)
Obj(x) == Val("object", x, 0)
Str(x) == Val("string", x, 0)
\* An Error object; n is the loop index of the attempt that created it.
Err(name, attempt) == Val("error", name, attempt)
SORRY == Str("Sorry, I couldn't fetch the stake protocol data at the moment.")

\* if (v): undefined and null are falsy, objects and non-empty strings truthy.
Truthy(v) == v.t \notin {"undefined", "null"}

\* The bodies a server may send, and what response.json() makes of them.
BodyTexts == {"<html>", "null", "{A}", "{B}"}
JsonOk(text) == text # "<html>"
JsonParse(text) ==
    CASE text = "null" -> NULL
      [] text = "{A}" -> Obj("A")
      [] text = "{B}" -> Obj("B")
      [] OTHER -> UNDEFINED

\* What fetch(url) settles to: a Response, or a rejection (no response at all).
NoResponse == [ok |-> FALSE, status |-> 0, body |-> ""]
Responses ==
    {[ok |-> FALSE, status |-> 500, body |-> "{A}"]}
    \cup {[ok |-> TRUE, status |-> 200, body |-> b] : b \in BodyTexts}
Outcomes == {NoResponse} \cup Responses
\* The outcomes of a server that is up and answers in JSON.
JsonServer == {r \in Responses : r.ok /\ JsonOk(r.body)}

VARIABLES
    build,      \* which revision of the provider file is running
    now,        \* Date.now()
    cache,      \* per provider instance: NodeCache's data, key -> [v, t]
    net,        \* the HTTP requests in flight: [by, url]
    pc,         \* per caller: where its invocation stands
    via,        \* per caller: "getStakePoolInfo" or "get"
    inst,       \* per caller: the provider instance its call runs on
    calls,      \* per caller: calls started so far
    i,          \* fetchWithRetry: the loop index
    lastError,  \* fetchWithRetry: lastError
    timer,      \* fetchWithRetry: when the pending setTimeout is due
    resp,       \* fetchWithRetry: the Response whose json() is awaited
    ret,        \* per caller: how the call settled, [state, v]
    fwr,        \* per caller: how its fetchWithRetry settled, [state, v]
    attempts,   \* history: the attempts of the fetchWithRetry invocation
    failedAt,   \* history: when the attempt now slept on entered its catch
    waited,     \* history: how long after the previous attempt failed the
                \* latest attempt called fetch (-1: it is the first)
    fetched,    \* history, per entry point: the data a call through it
                \* fetched last, and when its fetch returned
    seen,       \* history: fetched and its age, as the caller's call began
    overlapped, \* history: the caller's call ran while the other caller's did
    lastDone,   \* history: the caller whose call settled last
    frame,      \* aggregating fetchPoolData: its locals (pool index, url of
                \* the running fetchWithRetry, apyData, tvl, pools), and how
                \* many times the caller has entered the loop over the pools
    reqLog,     \* history: what the aggregating call has requested, in order
    registered, \* which action module the runtime has loaded
    poolList,   \* the STAKE_SOL module's poolList: key -> [address, protocolName]
    hpc,        \* per caller: where its handler invocation stands
    loc,        \* per caller: the locals of its handler invocation
    cbs,        \* per caller: what the handler passed to callback, in order
    hret,       \* per caller: how the handler's promise settled, [state, v]
    trace       \* history: the external calls the handler made, in order

providerVars == <<build, now, cache, net, pc, via, inst, calls, i, lastError, timer,
                  resp, ret, fwr, attempts, failedAt, waited, fetched, seen, overlapped,
                  lastDone, frame, reqLog>>

handlerVars == <<registered, poolList, hpc, loc, cbs, hret, trace>>

vars == <<providerVars, handlerVars>>

\* The locals of the aggregating fetchPoolData when no call is running.
NoPools == [k \in {} |-> 0]
\* succeeded, failed and nulls are history: the pools of the current walk
\* whose requests were all answered (stakePoolInfo resolved, both
\* fetchWithRetry calls returned), those one of whose requests failed for
\* good, and those one of whose answers was the JSON value null.
IdleFrame == [ix |-> 0, url |-> "", apyData |-> UNDEFINED, tvl |-> UNDEFINED,
              pools |-> NoPools, loops |-> 0, succeeded |-> {}, failed |-> {},
              nulls |-> {}]
NoFetches == [succeeded |-> {}, failed |-> {}, nulls |-> {}]
Tally(c) ==
    [succeeded |-> frame[c].succeeded, failed |-> frame[c].failed, nulls |-> frame[c].nulls]
WithSuccess(t, key, bodies) ==
    [t EXCEPT !.succeeded = @ \cup {key},
              !.nulls = IF NULL \in bodies THEN @ \cup {key} ELSE @]
WithFailure(t, key) == [t EXCEPT !.failed = @ \cup {key}]

Pending == [state |-> "pending", v |-> UNDEFINED]
Fulfilled(v) == [state |-> "fulfilled", v |-> v]
Rejected(e) == [state |-> "rejected", v |-> e]

(***************************************************************************)
(* node-cache, as the provider uses it: new NodeCache({stdTTL: CACHE_TTL}).*)
(* An entry is [v |-> value, t |-> expiry in ms]; get answers undefined    *)
(* for a missing key and for one whose t is before now.                    *)
(***************************************************************************)
EmptyCache == [k \in {} |-> 0]

\* The revision without a cache constructs none and never reads or writes one.
HasCache(b) == b # "plain"

\* Mutant of Live: the ttl is never applied.
LiveForever(c, key, t) == key \in DOMAIN c

Live(c, key, t) == key \in DOMAIN c /\ ~(c[key].t < t)

CacheGet(c, key, t) == IF Live(c, key, t) THEN c[key].v ELSE UNDEFINED

\* get deletes the entry it finds expired.
CacheAfterGet(c, key, t) ==
    IF key \in DOMAIN c /\ ~Live(c, key, t)
    THEN [k \in DOMAIN c \ {key} |-> c[k]]
    ELSE c

Expiry(t) == t + CACHE_TTL * 1000

CacheSet(c, key, v, t) ==
    [k \in DOMAIN c \cup {key} |->
        IF k = key THEN [v |-> v, t |-> Expiry(t)] ELSE c[k]]

(***************************************************************************)
(* fetchWithRetry.  The for loop runs from one await to the next:          *)
(*   Issue        the loop test passed, fetch(url) is called               *)
(*   FetchSettle  await fetch(...) settles; !response.ok throws            *)
(*   JsonSettle   await response.json() settles; success returns           *)
(*   CatchAfter   the catch block up to its await of setTimeout            *)
(*   TimerFire    the timer resolves, i++, the loop test, and either the   *)
(*                next fetch or throw lastError                            *)
(***************************************************************************)
\* Mutant of LoopTest: one iteration too many.
LoopTestOffByOne(k) == k <= MAX_RETRIES

\* for (let i = 0; i < PROVIDER_CONFIG.MAX_RETRIES; i++)
LoopTest(k) == k < MAX_RETRIES

\* Mutant of NextLastError: the first error is kept.
KeepFirstError(prev, e) == IF prev.t = "undefined" THEN e ELSE prev

\* lastError = error
NextLastError(prev, e) == e

\* Mutant of RetryWake: the retry does not wait.
RetryWakeNoDelay(t) == t

\* setTimeout(resolve, PROVIDER_CONFIG.RETRY_DELAY), called at time t
RetryWake(t) == t + RETRY_DELAY

Request(c, url) == [by |-> c, url |-> url]

\* The history of one attempt: what fetch settled to (out), how the attempt
\* ended (res) and the value it returned or the error it caught (v).
NewAttempt == [out |-> NoResponse, res |-> "pending", v |-> UNDEFINED]

Answered(log, r) == [log EXCEPT ![Len(log)] = [@ EXCEPT !.out = r]]

CloseAttempt(log, res, v) == [log EXCEPT ![Len(log)] = [@ EXCEPT !.res = res, !.v = v]]

\* fetch(url, options) is called: one more request is in flight.
Issue(c, url) ==
    /\ net' = net \cup {Request(c, url)}
    /\ attempts' = [attempts EXCEPT ![c] = Append(@, NewAttempt)]
    /\ waited' = [waited EXCEPT ![c] = now - failedAt[c]]
    /\ failedAt' = [failedAt EXCEPT ![c] = -1]
    /\ pc' = [pc EXCEPT ![c] = "fetch"]

\* catch (error) { lastError = error; await setTimeout(RETRY_DELAY) }, entered
\* with the error named `name` after fetch settled to r.
CatchAfter(c, name, r) ==
    /\ lastError' = [lastError EXCEPT ![c] = NextLastError(@, Err(name, i[c]))]
    /\ timer' = [timer EXCEPT ![c] = RetryWake(now)]
    /\ attempts' = [attempts EXCEPT ![c] =
                       CloseAttempt(Answered(@, r), name, Err(name, i[c]))]
    /\ failedAt' = [failedAt EXCEPT ![c] = now]
    /\ pc' = [pc EXCEPT ![c] = "sleep"]

(***************************************************************************)
(* What runs when fetchWithRetry settles: the rest of fetchPoolData, of    *)
(* getStakePoolInfo and, for a call made through the provider object, of   *)
(* stakeProtocolProvider.get.  The locals of fetchWithRetry end with it.   *)
(***************************************************************************)
\* Mutant of GetCatch: the error is thrown on.
GetRethrow(e) == Rejected(e)

\* get's try/catch around provider.getStakePoolInfo(runtime).
GetCatch(e) == Fulfilled(SORRY)

Settle(how, outcome) ==
    IF how = "get" /\ outcome.state = "rejected" THEN GetCatch(outcome.v) ELSE outcome

\* Mutant of StoreFetched: an entry already there is left alone.
StoreIfAbsent(c, key, v, t) == IF key \in DOMAIN c THEN c ELSE CacheSet(c, key, v, t)

\* fetchPoolData after its await, in the revision with the cache:
\* this.cache.set(cacheKey, data); return data.
StoreFetched(c, key, v, t) == CacheSet(c, key, v, t)

Returned(c, v) ==
    /\ fwr' = [fwr EXCEPT ![c] = Fulfilled(v)]
    /\ fetched' = [fetched EXCEPT ![via[c]] = [has |-> TRUE, v |-> v, at |-> now]]
    /\ lastDone' = c
    /\ ret' = [ret EXCEPT ![c] = Settle(via[c], Fulfilled(v))]
    /\ cache' = IF HasCache(build)
                THEN [cache EXCEPT ![inst[c]] = StoreFetched(@, cacheKey, v, now)]
                ELSE cache
    /\ pc' = [pc EXCEPT ![c] = "done"]

Thrown(c, e) ==
    /\ fwr' = [fwr EXCEPT ![c] = Rejected(e)]
    /\ lastDone' = c
    /\ ret' = [ret EXCEPT ![c] = Settle(via[c], Rejected(e))]
    /\ pc' = [pc EXCEPT ![c] = "done"]

\* The url parameter of the running fetchWithRetry.
UrlOf(c) == IF build = "aggregate" THEN frame[c].url ELSE PoolInfoUrl

\* await fetch(url, options) settles with one of the outcomes on offer.
FetchSettle(c, offered) ==
    /\ pc[c] = "fetch"
    /\ Request(c, UrlOf(c)) \in net
    /\ net' = net \ {Request(c, UrlOf(c))}
    /\ \E r \in offered :
         IF r = NoResponse
         THEN CatchAfter(c, "TypeError", r) /\ UNCHANGED resp
         ELSE IF ~r.ok
         THEN CatchAfter(c, "HttpError", r) /\ UNCHANGED resp
         ELSE /\ resp' = [resp EXCEPT ![c] = r]
              /\ attempts' = [attempts EXCEPT ![c] = Answered(@, r)]
              /\ pc' = [pc EXCEPT ![c] = "json"]
              /\ UNCHANGED <<lastError, timer, failedAt>>
    /\ UNCHANGED handlerVars
    /\ UNCHANGED <<build, frame, reqLog, now, cache, via, inst, calls, i, ret, fwr, waited, fetched,
                   seen, overlapped, lastDone>>

JsonSettle(c) ==
    /\ pc[c] = "json"
    /\ resp' = [resp EXCEPT ![c] = NoResponse]
    /\ IF JsonOk(resp[c].body)
       THEN /\ Returned(c, JsonParse(resp[c].body))
            /\ attempts' = [attempts EXCEPT ![c] =
                               CloseAttempt(@, "ok", JsonParse(resp[c].body))]
            /\ i' = [i EXCEPT ![c] = 0]
            /\ lastError' = [lastError EXCEPT ![c] = UNDEFINED]
            /\ UNCHANGED <<timer, failedAt>>
       ELSE /\ CatchAfter(c, "SyntaxError", resp[c])
            /\ UNCHANGED <<cache, ret, fwr, i, fetched, lastDone>>
    /\ UNCHANGED handlerVars
    /\ UNCHANGED <<build, frame, reqLog, now, net, via, inst, calls, waited, seen, overlapped>>

TimerFire(c) ==
    /\ pc[c] = "sleep"
    /\ now >= timer[c]
    /\ timer' = [timer EXCEPT ![c] = -1]
    /\ IF LoopTest(i[c] + 1)
       THEN /\ i' = [i EXCEPT ![c] = @ + 1]
            /\ Issue(c, PoolInfoUrl)
            /\ UNCHANGED <<ret, fwr, lastError, lastDone>>
       ELSE /\ Thrown(c, lastError[c])
            /\ i' = [i EXCEPT ![c] = 0]
            /\ lastError' = [lastError EXCEPT ![c] = UNDEFINED]
            /\ failedAt' = [failedAt EXCEPT ![c] = -1]
            /\ UNCHANGED <<net, attempts, waited>>
    /\ UNCHANGED handlerVars
    /\ UNCHANGED <<build, frame, reqLog, now, cache, via, inst, calls, resp, fetched, seen, overlapped>>

(***************************************************************************)
(* fetchPoolData up to its first await.                                    *)
(***************************************************************************)
\* if (cachedData) return cachedData;
CacheHit(cachedData) == Truthy(cachedData)

InProgress(c) == pc[c] \in {"fetch", "json", "sleep", "rpc", "pause"}

\* A call begins on instance p: through getStakePoolInfo on the module-level
\* provider, or through stakeProtocolProvider.get, which constructs its own.
Begin(c, how) ==
    LET p == IF how = "get" THEN c ELSE ModuleInstance
        fresh == IF how = "get" THEN [cache EXCEPT ![c] = EmptyCache] ELSE cache
        cachedData == IF ~HasCache(build) THEN UNDEFINED
                      ELSE CacheGet(fresh[p], cacheKey, now)
    IN  /\ pc[c] \in {"idle", "done"}
        /\ calls[c] < MaxCalls
        /\ calls' = [calls EXCEPT ![c] = @ + 1]
        /\ via' = [via EXCEPT ![c] = how]
        /\ inst' = [inst EXCEPT ![c] = p]
        /\ seen' = [seen EXCEPT ![c] = [has |-> fetched[how].has, v |-> fetched[how].v,
                                         age |-> now - fetched[how].at]]
        /\ overlapped' = [d \in Callers |->
                             IF d = c THEN \E e \in Callers \ {c} : InProgress(e)
                             ELSE overlapped[d] \/ InProgress(d)]
        /\ fwr' = [fwr EXCEPT ![c] = Pending]
        /\ failedAt' = [failedAt EXCEPT ![c] = -1]
        /\ waited' = [waited EXCEPT ![c] = -1]
        /\ cache' = IF ~HasCache(build) THEN fresh
                    ELSE [fresh EXCEPT ![p] = CacheAfterGet(@, cacheKey, now)]
        /\ IF HasCache(build) /\ CacheHit(cachedData)
           THEN /\ ret' = [ret EXCEPT ![c] = Fulfilled(cachedData)]
                /\ pc' = [pc EXCEPT ![c] = "done"]
                /\ attempts' = [attempts EXCEPT ![c] = <<>>]
                /\ lastDone' = c
                /\ UNCHANGED net
           ELSE /\ ret' = [ret EXCEPT ![c] = Pending]
                /\ net' = net \cup {Request(c, PoolInfoUrl)}
                /\ attempts' = [attempts EXCEPT ![c] = <<NewAttempt>>]
                /\ pc' = [pc EXCEPT ![c] = "fetch"]
                /\ UNCHANGED lastDone
        /\ UNCHANGED handlerVars
        /\ UNCHANGED <<build, frame, reqLog, now, i, lastError, timer, resp, fetched>>

GetStakePoolInfo(c) == Begin(c, "getStakePoolInfo")

ProviderGet(c) == Begin(c, "get")

(***************************************************************************)
(* Time.  A short step passes while some setTimeout is pending or barely   *)
(* overdue; a long one (half the cache's ttl) at any moment.               *)
(***************************************************************************)
ShortStep == RETRY_DELAY \div 2
LongStep == (CACHE_TTL * 1000) \div 2

Tick(d) ==
    /\ now + d <= MaxTime
    /\ d < LongStep => \E c \in Callers : pc[c] \in {"sleep", "pause"} /\ now < timer[c] + d
    /\ now' = now + d
    /\ UNCHANGED handlerVars
    /\ UNCHANGED <<build, frame, reqLog, cache, net, pc, via, inst, calls, i, lastError, timer,
                   resp, ret, fwr, attempts, failedAt, waited, fetched, seen, overlapped, lastDone>>

\* Time passes until the caller's pending timer is due.
TickTo(c) ==
    /\ pc[c] \in {"sleep", "pause"}
    /\ now < timer[c]
    /\ timer[c] <= MaxTime
    /\ now' = timer[c]
    /\ UNCHANGED handlerVars
    /\ UNCHANGED <<build, frame, reqLog, cache, net, pc, via, inst, calls, i, lastError,
                   timer, resp, ret, fwr, attempts, failedAt, waited, fetched, seen,
                   overlapped, lastDone>>

EntryPoints == {"getStakePoolInfo", "get"}
NothingFetched == [has |-> FALSE, v |-> UNDEFINED, at |-> 0]

InitProvider(b) ==
    /\ build = b
    /\ now = 0
    /\ cache = [p \in Instances |-> EmptyCache]
    /\ net = {}
    /\ pc = [c \in Callers |-> "idle"]
    /\ via = [c \in Callers |-> "getStakePoolInfo"]
    /\ inst = [c \in Callers |-> ModuleInstance]
    /\ calls = [c \in Callers |-> 0]
    /\ i = [c \in Callers |-> 0]
    /\ lastError = [c \in Callers |-> UNDEFINED]
    /\ timer = [c \in Callers |-> -1]
    /\ resp = [c \in Callers |-> NoResponse]
    /\ ret = [c \in Callers |-> Pending]
    /\ fwr = [c \in Callers |-> Pending]
    /\ attempts = [c \in Callers |-> <<>>]
    /\ failedAt = [c \in Callers |-> -1]
    /\ waited = [c \in Callers |-> -1]
    /\ fetched = [how \in EntryPoints |-> NothingFetched]
    /\ seen = [c \in Callers |-> [has |-> FALSE, v |-> UNDEFINED, age |-> 0]]
    /\ overlapped = [c \in Callers |-> FALSE]
    /\ lastDone = "h1"
    /\ frame = [c \in Callers |-> IdleFrame]
    /\ reqLog = [c \in Callers |-> <<>>]

(***************************************************************************)
(* The aggregating revision of the provider (the first StakeProtocolProvider*)
(* of providers/stakeProtocol.ts): fetchPoolData walks STAKE_POOLS, asks    *)
(* the RPC node for each stake pool and pauses a second, asks Marinade's    *)
(* two endpoints through fetchWithRetry, skips a pool whose fetch threw,    *)
(* and caches what it gathered.  get formats the data as text.              *)
(***************************************************************************)
POOL_PAUSE == 1000

\* Object.entries(STAKE_POOLS): the keys in insertion order.
StakePoolOrder == <<"jito", "blaze", "marginfi", "jpool", "marinade">>

ProtocolName(key) ==
    CASE key = "jito" -> "Jito"
      [] key = "blaze" -> "Blaze"
      [] key = "marginfi" -> "Marginfi"
      [] key = "jpool" -> "JPool"
      [] key = "marinade" -> "Marinade"

ApyUrl == "https://apy.marinade.finance/marinade"
TvlUrl == "https://api.marinade.finance/tlv"

Num == Val("number", "", 0)

\* apyData.apy, tvlData.total_sol: the body "{A}" carries the field read,
\* the body "{B}" is an object without it.
Field(v) == IF v = Obj("A") THEN Num ELSE UNDEFINED

\* Reading a property of null or undefined throws a TypeError.
CanRead(v) == v.t \notin {"undefined", "null"}

\* const data = { pools, timestamp: Date.now() }
PoolsData(P, t) ==
    [t |-> "object", x |-> "StakeProtocolData", n |-> 0, pools |-> P, timestamp |-> t]

\* pools[key] = { apy, tvl, protocolName }
WithPool(P, key, apy, tvl) ==
    [k \in DOMAIN P \cup {key} |->
        IF k = key
        THEN [apy |-> apy, tvl |-> tvl, protocolName |-> ProtocolName(key)]
        ELSE P[k]]

\* getFormattedStakeData: pool.apy.toFixed(2) and pool.tvl.toLocaleString()
\* throw on undefined.
CanFormat(P) == \A k \in DOMAIN P : P[k].apy.t = "number" /\ P[k].tvl.t = "number"

Formatted(P) ==
    [t |-> "string", x |-> "Available Liquid Staking Protocols:", n |-> 0, pools |-> P]

\* get's catch in the aggregating revision.
AggGetCatch(e) == Fulfilled(SORRY)

\* How the call settles once fetchPoolData returned data.
AggSettle(how, data) ==
    IF how = "get"
    THEN IF CanFormat(data.pools)
         THEN Fulfilled(Formatted(data.pools))
         ELSE AggGetCatch(Err("TypeError", 0))
    ELSE Fulfilled(data)

\* Mutant of MarinadeFirstRequests: both endpoints are asked at once.
MarinadeBothRequests(c) == {Request(c, ApyUrl), Request(c, TvlUrl)}

\* The requests issued when the loop reaches Marinade: the APY one.
MarinadeFirstRequests(c) == {Request(c, ApyUrl)}

\* The loop body begins for pool number k with pools = P: the first request
\* for that pool is issued.
AggStartPool(c, k, P, baseNet, baseLog, n, t) ==
    LET key == StakePoolOrder[k] IN
    /\ i' = [i EXCEPT ![c] = 0]
    /\ lastError' = [lastError EXCEPT ![c] = UNDEFINED]
    /\ IF ProtocolName(key) = "Marinade"
       THEN /\ net' = baseNet \cup MarinadeFirstRequests(c)
            /\ frame' = [frame EXCEPT ![c] =
                            [ix |-> k, url |-> ApyUrl, apyData |-> UNDEFINED,
                             tvl |-> UNDEFINED, pools |-> P, loops |-> n,
                             succeeded |-> t.succeeded, failed |-> t.failed,
                             nulls |-> t.nulls]]
            /\ reqLog' = [reqLog EXCEPT ![c] = Append(baseLog, ApyUrl)]
            /\ pc' = [pc EXCEPT ![c] = "fetch"]
       ELSE /\ net' = baseNet \cup {Request(c, key)}
            /\ frame' = [frame EXCEPT ![c] =
                            [ix |-> k, url |-> key, apyData |-> UNDEFINED,
                             tvl |-> UNDEFINED, pools |-> P, loops |-> n,
                             succeeded |-> t.succeeded, failed |-> t.failed,
                             nulls |-> t.nulls]]
            /\ reqLog' = [reqLog EXCEPT ![c] = Append(baseLog, key)]
            /\ pc' = [pc EXCEPT ![c] = "rpc"]

\* The attempts history as the loop body begins for pool number k.
FirstAttempts(k) ==
    IF ProtocolName(StakePoolOrder[k]) = "Marinade" THEN <<NewAttempt>> ELSE <<>>

\* The loop is over: data = { pools, timestamp }, cache.set, return data.
AggFinish(c, P, baseNet, t) ==
    LET data == PoolsData(P, now) IN
    /\ cache' = [cache EXCEPT ![inst[c]] = CacheSet(@, cacheKey, data, now)]
    /\ ret' = [ret EXCEPT ![c] = AggSettle(via[c], data)]
    /\ fetched' = [fetched EXCEPT ![via[c]] = [has |-> TRUE, v |-> data, at |-> now]]
    /\ lastDone' = c
    /\ net' = baseNet
    /\ frame' = [frame EXCEPT ![c] = [IdleFrame EXCEPT !.pools = P, !.loops = frame[c].loops,
                                                    !.succeeded = t.succeeded,
                                                    !.failed = t.failed,
                                                    !.nulls = t.nulls]]
    /\ i' = [i EXCEPT ![c] = 0]
    /\ lastError' = [lastError EXCEPT ![c] = UNDEFINED]
    /\ pc' = [pc EXCEPT ![c] = "done"]
    /\ UNCHANGED reqLog

NextPool(k) == k + 1

\* The loop moves on from pool number k, with pools = P.
AggAdvance(c, k, P, baseNet, t) ==
    IF NextPool(k) > Len(StakePoolOrder)
    THEN AggFinish(c, P, baseNet, t)
    ELSE /\ AggStartPool(c, NextPool(k), P, baseNet, reqLog[c], frame[c].loops, t)
         /\ UNCHANGED <<cache, ret, fetched, lastDone>>

\* fetchPoolData up to its first await, in the aggregating revision.
AggBegin(c, how) ==
    LET p == IF how = "get" THEN c ELSE ModuleInstance
        fresh == IF how = "get" THEN [cache EXCEPT ![c] = EmptyCache] ELSE cache
        cachedData == CacheGet(fresh[p], cacheKey, now)
    IN  /\ pc[c] \in {"idle", "done"}
        /\ calls[c] < MaxCalls
        /\ calls' = [calls EXCEPT ![c] = @ + 1]
        /\ via' = [via EXCEPT ![c] = how]
        /\ inst' = [inst EXCEPT ![c] = p]
        /\ seen' = [seen EXCEPT ![c] = [has |-> fetched[how].has, v |-> fetched[how].v,
                                         age |-> now - fetched[how].at]]
        /\ overlapped' = [d \in Callers |->
                             IF d = c THEN \E e \in Callers \ {c} : InProgress(e)
                             ELSE overlapped[d] \/ InProgress(d)]
        /\ fwr' = [fwr EXCEPT ![c] = Pending]
        /\ failedAt' = [failedAt EXCEPT ![c] = -1]
        /\ waited' = [waited EXCEPT ![c] = -1]
        /\ cache' = [fresh EXCEPT ![p] = CacheAfterGet(@, cacheKey, now)]
        /\ IF CacheHit(cachedData)
           THEN /\ ret' = [ret EXCEPT ![c] = AggSettle(how, cachedData)]
                /\ pc' = [pc EXCEPT ![c] = "done"]
                /\ attempts' = [attempts EXCEPT ![c] = <<>>]
                /\ reqLog' = [reqLog EXCEPT ![c] = <<>>]
                /\ frame' = [frame EXCEPT ![c] = [IdleFrame EXCEPT !.loops = frame[c].loops]]
                /\ lastDone' = c
                /\ UNCHANGED <<net, i, lastError>>
           ELSE /\ frame[c].loops < MaxLoops
                /\ ret' = [ret EXCEPT ![c] = Pending]
                /\ AggStartPool(c, 1, NoPools, net, <<>>, frame[c].loops + 1, NoFetches)
                /\ attempts' = [attempts EXCEPT ![c] = FirstAttempts(1)]
                /\ UNCHANGED lastDone
        /\ UNCHANGED handlerVars
        /\ UNCHANGED <<build, now, timer, resp, fetched>>

AggGetStakePoolInfo(c) == AggBegin(c, "getStakePoolInfo")

AggProviderGet(c) == AggBegin(c, "get")

\* await stakePoolInfo(connection, poolAddr) settles: with the pool's account
\* (tvl is computed and sleep(1000) awaited) or with an error (the pool's
\* catch logs it and the loop moves on).
AggRpcSettle(c) ==
    /\ pc[c] = "rpc"
    /\ Request(c, frame[c].url) \in net
    /\ \/ /\ net' = net \ {Request(c, frame[c].url)}
          /\ frame' = [frame EXCEPT ![c].tvl = Num,
                                     ![c].succeeded = @ \cup {StakePoolOrder[frame[c].ix]}]
          /\ timer' = [timer EXCEPT ![c] = now + POOL_PAUSE]
          /\ pc' = [pc EXCEPT ![c] = "pause"]
          /\ UNCHANGED <<i, lastError, attempts, reqLog, cache, ret, fetched, lastDone>>
       \/ /\ AggAdvance(c, frame[c].ix, frame[c].pools, net \ {Request(c, frame[c].url)},
                        WithFailure(Tally(c), StakePoolOrder[frame[c].ix]))
          /\ attempts' = [attempts EXCEPT ![c] = FirstAttempts(NextPool(frame[c].ix))]
          /\ UNCHANGED timer
    /\ UNCHANGED handlerVars
    /\ UNCHANGED <<build, now, via, inst, calls, resp, fwr, failedAt, waited, seen,
                   overlapped>>

\* sleep(1000) is over: pools[key] = { apy: 0, tvl, protocolName }, next pool.
AggPauseFire(c) ==
    /\ pc[c] = "pause"
    /\ now >= timer[c]
    /\ timer' = [timer EXCEPT ![c] = -1]
    /\ AggAdvance(c, frame[c].ix,
                  WithPool(frame[c].pools, StakePoolOrder[frame[c].ix], Num, frame[c].tvl),
                  net, Tally(c))
    /\ attempts' = [attempts EXCEPT ![c] = FirstAttempts(NextPool(frame[c].ix))]
    /\ UNCHANGED handlerVars
    /\ UNCHANGED <<build, now, via, inst, calls, resp, fwr, failedAt, waited, seen,
                   overlapped>>

\* Mutant of WithMarinade: reading a field of null yields undefined instead
\* of throwing.
WithMarinadeLenient(P, apyData, tvlData) ==
    WithPool(P, "marinade", Field(apyData), Field(tvlData))

\* tvl = tvlData.total_sol; apy = apyData.apy; pools[key] = {...}: a null
\* body throws, and the pool's catch leaves the pool out.
WithMarinade(P, apyData, tvlData) ==
    IF CanRead(tvlData) /\ CanRead(apyData)
    THEN WithPool(P, "marinade", Field(apyData), Field(tvlData))
    ELSE P

\* fetchWithRetry's await response.json() settles, in the aggregating
\* revision: the APY call returns into the TVL call, the TVL call into the
\* end of the loop body.
AggJsonSettle(c) ==
    /\ pc[c] = "json"
    /\ resp' = [resp EXCEPT ![c] = NoResponse]
    /\ IF JsonOk(resp[c].body)
       THEN LET v == JsonParse(resp[c].body) IN
            /\ fwr' = [fwr EXCEPT ![c] = Fulfilled(v)]
            /\ IF frame[c].url = ApyUrl
               THEN /\ frame' = [frame EXCEPT ![c].apyData = v, ![c].url = TvlUrl]
                    /\ net' = net \cup {Request(c, TvlUrl)}
                    /\ reqLog' = [reqLog EXCEPT ![c] = Append(@, TvlUrl)]
                    /\ attempts' = [attempts EXCEPT ![c] = <<NewAttempt>>]
                    /\ i' = [i EXCEPT ![c] = 0]
                    /\ lastError' = [lastError EXCEPT ![c] = UNDEFINED]
                    /\ waited' = [waited EXCEPT ![c] = -1]
                    /\ pc' = [pc EXCEPT ![c] = "fetch"]
                    /\ UNCHANGED <<cache, ret, fetched, lastDone>>
               ELSE /\ AggAdvance(c, frame[c].ix,
                                  WithMarinade(frame[c].pools, frame[c].apyData, v), net,
                                  WithSuccess(Tally(c), StakePoolOrder[frame[c].ix],
                                              {frame[c].apyData, v}))
                    /\ attempts' = [attempts EXCEPT ![c] = CloseAttempt(@, "ok", v)]
                    /\ UNCHANGED waited
            /\ UNCHANGED <<timer, failedAt>>
       ELSE /\ CatchAfter(c, "SyntaxError", resp[c])
            /\ UNCHANGED <<net, frame, reqLog, i, cache, ret, fetched, lastDone, fwr,
                           waited>>
    /\ UNCHANGED handlerVars
    /\ UNCHANGED <<build, now, via, inst, calls, seen, overlapped>>

\* fetchWithRetry's timer resolves, in the aggregating revision: the next
\* attempt, or throw lastError into the pool's catch, which moves on.
AggTimerFire(c) ==
    /\ pc[c] = "sleep"
    /\ now >= timer[c]
    /\ timer' = [timer EXCEPT ![c] = -1]
    /\ IF LoopTest(i[c] + 1)
       THEN /\ i' = [i EXCEPT ![c] = @ + 1]
            /\ Issue(c, frame[c].url)
            /\ reqLog' = [reqLog EXCEPT ![c] = Append(@, frame[c].url)]
            /\ UNCHANGED <<frame, lastError, cache, ret, fetched, lastDone, fwr>>
       ELSE /\ fwr' = [fwr EXCEPT ![c] = Rejected(lastError[c])]
            /\ AggAdvance(c, frame[c].ix, frame[c].pools, net,
                          WithFailure(Tally(c), StakePoolOrder[frame[c].ix]))
            /\ failedAt' = [failedAt EXCEPT ![c] = -1]
            /\ UNCHANGED <<attempts, waited>>
    /\ UNCHANGED handlerVars
    /\ UNCHANGED <<build, now, via, inst, calls, resp, seen, overlapped>>

(***************************************************************************)
(* The action modules: what the runtime has loaded, the module-level pool  *)
(* list of STAKE_SOL, and the handler invocations.                         *)
(***************************************************************************)
\* The locals of a caller no handler has been invoked for: only the count of
\* its invocations so far.
NoLocals == [runs |-> 0]

\* The pool list a stake module is loaded with: STAKE_POOLS.
Address(key) ==
    CASE key = "jito" -> "Jito4APyf642JPZPx3hGc6WWJ8zPKtRbRs4P815Awbb"
      [] key = "blaze" -> "stk9ApL5HeVAwPLr3TLhDXdZS8ptVu7zp6ov8HFDuMi"
      [] key = "marginfi" -> "DqhH94PjkZsjAqEze2BEkWhFQJ6EyU6MdtMphMgnXqeK"
      [] key = "jpool" -> "CtMyWsrUtAwXWiGr9WjHT5fC3p3fgV8cyGpLTo2LJzG1"
      [] key = "marinade" -> "MckGXZC1GbLqTK1vaSWsjRvWg5G3tj8hpXfaHYBqqKy"

PoolsOn(keys) ==
    [k \in keys |-> [address |-> Address(k), protocolName |-> ProtocolName(k)]]

STAKE_POOLS == PoolsOn({StakePoolOrder[k] : k \in DOMAIN StakePoolOrder})

\* A module is loaded and no handler has been invoked.
InitHandlers(a) ==
    /\ registered = a
    /\ poolList = STAKE_POOLS
    /\ hpc = [c \in Callers |-> "idle"]
    /\ loc = [c \in Callers |-> NoLocals]
    /\ cbs = [c \in Callers |-> <<>>]
    /\ hret = [c \in Callers |-> Pending]
    /\ trace = [c \in Callers |-> <<>>]

\* The provider alone, as the runtime's providers list uses it.
InitBuild(b) == InitProvider(b) /\ InitHandlers("none")

(***************************************************************************)
(* Spec: one caller, one invocation at a time, of the two revisions that   *)
(* make a single request: providers/stakeProtocol.ts as it stands (behind  *)
(* the cache) and the revision without a cache.  Every outcome of fetch is *)
(* on offer, and time passes in steps of half a RETRY_DELAY.               *)
(***************************************************************************)
Init == \E b \in {"cached", "plain"} : InitBuild(b)

Next ==
    \/ GetStakePoolInfo("h1")
    \/ ProviderGet("h1")
    \/ FetchSettle("h1", Outcomes)
    \/ JsonSettle("h1")
    \/ TimerFire("h1")
    \/ Tick(ShortStep)

Spec == Init /\ [][Next]_vars

(***************************************************************************)
(* SpecShared: the revision with the cache, two invocations overlapping on *)
(* the module-level provider, against a server that answers in JSON or not *)
(* at all; time passes in steps of half the ttl.                           *)
(***************************************************************************)
SharedOffer == JsonServer \cup {NoResponse}

InitShared == InitBuild("cached")

NextShared ==
    \/ \E c \in Callers : GetStakePoolInfo(c)
    \/ \E c \in Callers : FetchSettle(c, SharedOffer)
    \/ \E c \in Callers : JsonSettle(c)
    \/ \E c \in Callers : TimerFire(c)
    \/ Tick(LongStep)

SpecShared == InitShared /\ [][NextShared]_vars

(***************************************************************************)
(* SpecAgg: the aggregating revision, one caller, one invocation at a time.*)
(***************************************************************************)
InitAgg == InitBuild("aggregate")

NextAgg ==
    \/ AggGetStakePoolInfo("h1")
    \/ AggProviderGet("h1")
    \/ AggRpcSettle("h1")
    \/ AggPauseFire("h1")
    \/ FetchSettle("h1", Outcomes)
    \/ AggJsonSettle("h1")
    \/ AggTimerFire("h1")
    \/ TickTo("h1")

SpecAgg == InitAgg /\ [][NextAgg]_vars

(***************************************************************************)
(* The stake handlers.  Three modules carry one: STAKE_SOL with the pool   *)
(* list fetched from the provider, STAKE_SOL with the pools of its config, *)
(* and STAKE_LIQUID_SOL built by createStakeAction.  One action per await  *)
(* of the handler; what the runtime, the model, the provider and the SDK   *)
(* answer is the environment's choice.  provider.getStakePoolList and      *)
(* provider.getStakePoolInfo settle as fetchWithRetry does: with the       *)
(* parsed body, or rejected with the last error.                           *)
(***************************************************************************)
ListRev == "STAKE_SOL (pool list)"
StaticRev == "STAKE_SOL"
UtilsRev == "STAKE_LIQUID_SOL"

\* The booleans a handler returns.
JsTrue == Val("boolean", "true", 0)
JsFalse == Val("boolean", "false", 0)

\* What the model may extract: [userAddress, amountSol, poolName].
Content(userAddress, amountSol, poolName) ==
    [userAddress |-> userAddress, amountSol |-> amountSol, poolName |-> poolName]

UserKey == "HqvTPqS2FaB2fQ7mxqZHQHz6H28o1u2Z9fRH5No8JN2W"

Contents ==
    { Content(Str(UserKey), Str("1.5"), Str("Jito")),
      Content(Str(UserKey), Str("1.5"), Str("")),
      Content(Str(UserKey), Str("1.5"), NULL),
      Content(Str(UserKey), Str("1.5"), Str("blaze")),
      Content(Str(UserKey), Str("1.5"), Str("solayer")),
      Content(Str(UserKey), Str("1.5"), UNDEFINED),
      Content(Str("not-a-key"), Str("1.5"), Str("jito")),
      Content(UNDEFINED, Str("1.5"), Str("jito")) }

\* What the model may select: selectedPoolResp.selectedPool.
Selections == {UNDEFINED, Str(""), Str("marinade"), Str("Blaze")}

\* What the pool-list endpoint may answer.
ServerLists == {PoolsOn({}), STAKE_POOLS, PoolsOn({"jito", "marinade"})}

isStakeParams(content) ==
    /\ content.userAddress.t = "string"
    /\ content.amountSol.t \in {"number", "string"}

\* StakeParamsSchema, which generateObject enforces in the pool-list module.
StakeParamsSchema(content) ==
    /\ content.poolName.t \in {"string", "null"}
    /\ content.userAddress.t = "string"
    /\ content.amountSol.t \in {"number", "string"}

\* SelectedPoolSchema: selectedPool is a string.
SelectedPoolSchema(selectedPool) == selectedPool.t = "string"

\* generateObject throws when the object does not match the schema passed.
MatchesSchema(rev, ok) == rev # ListRev \/ ok

\* !v for the values a pool name can be.
Falsy(v) == v.t \in {"undefined", "null"} \/ v = Str("")

\* The test that sends the handler to automatic selection:
\* poolName === "" || poolName === null, and in createStakeAction
\* poolName == "", which null does not satisfy.
NeedsSelection(rev, poolName) ==
    IF rev = UtilsRev THEN poolName = Str("")
    ELSE poolName = Str("") \/ poolName = NULL

\* String.prototype.toLowerCase on the names in play.
toLowerCase(x) ==
    CASE x = "Jito" -> "jito"
      [] x = "Blaze" -> "blaze"
      [] x = "Marginfi" -> "marginfi"
      [] x = "JPool" -> "jpool"
      [] x = "Marinade" -> "marinade"
      [] OTHER -> x

\* parseFloat(content.amountSol as string)
parseFloat(v) == Val("number", v.x, 0)

\* The value of list[key] for a key the list does not have.
NoPool == [address |-> "", protocolName |-> ""]

\* The list the handler's lookup reads: the module's poolList, or config.pools.
PoolsOf(rev) == IF rev = ListRev THEN poolList ELSE STAKE_POOLS

\* Mutant of Lookup: a key the list lacks falls back to the first pool.
LookupOrFirst(list, key) ==
    IF key \in DOMAIN list THEN list[key]
    ELSE IF "jito" \in DOMAIN list THEN list["jito"] ELSE NoPool

\* list[key]
Lookup(list, key) == IF key \in DOMAIN list THEN list[key] ELSE NoPool

\* The object whose address and protocolName build the deposit: the pool,
\* and in createStakeAction pool[1], which a pool object does not have.
PoolEntry(rev, pool) == IF rev = UtilsRev THEN NoPool ELSE pool

\* new PublicKey(text) throws on anything that is not a key.
IsPublicKey(text) == text = UserKey \/ \E k \in DOMAIN STAKE_POOLS : text = Address(k)

\* Object.keys(poolList).map(key => poolList[key].protocolName)
PoolNames(list) == {list[k].protocolName : k \in DOMAIN list}

\* What depositSolToMarinade or depositSolToPool returns: the transaction.
DepositTx(pool, from, amountSol) ==
    [program |-> IF toLowerCase(pool.protocolName) = "marinade"
                 THEN "marinade" ELSE pool.address,
     from |-> from, amountSol |-> amountSol]

\* bs58.encode(transaction.serialize())
base58Tx(tx) == [bs58 |-> tx]

Msg(text, error, protocol, transaction) ==
    [text |-> text, error |-> error, protocol |-> protocol, transaction |-> transaction]

NoTx == [bs58 |-> [program |-> "", from |-> "", amountSol |-> UNDEFINED]]

ErrorMsg(text, error) == Msg(text, error, "", NoTx)

\* responseMsg: the JSON of the pool-list module, the sentence of the others.
ResponseMsg(rev, pool, tx) ==
    Msg(IF rev = ListRev THEN "{action, amountSol, userAddress, protocol, transaction}"
        ELSE "Stake ... completed successfully! Transaction: ...",
        "", pool.protocolName, base58Tx(tx))

StakeLocals(n, sdk) ==
    [runs |-> n, sdk |-> sdk, content |-> Content(UNDEFINED, UNDEFINED, UNDEFINED),
     poolNames |-> {}, namesFrom |-> PoolsOn({}), finalPoolName |-> UNDEFINED,
     pool |-> NoPool, lookedIn |-> PoolsOn({}), looked |-> FALSE,
     selecting |-> FALSE, deposited |-> FALSE]

\* The handler returns value v after passing msgs to callback.
StakeReturn(c, msgs, v) ==
    /\ cbs' = [cbs EXCEPT ![c] = @ \o msgs]
    /\ hret' = [hret EXCEPT ![c] = Fulfilled(v)]
    /\ hpc' = [hpc EXCEPT ![c] = "done"]

\* An exception leaves the handler: its promise rejects.
StakeReject(c, e) ==
    /\ hret' = [hret EXCEPT ![c] = Rejected(e)]
    /\ hpc' = [hpc EXCEPT ![c] = "done"]
    /\ UNCHANGED cbs

\* The handler is invoked and runs to its first await.
StakeStart(c) ==
    /\ registered \in {ListRev, StaticRev, UtilsRev}
    /\ hpc[c] \in {"idle", "done"}
    /\ loc[c].runs < MaxRuns
    /\ \E sdk \in {"ok", "fails"} :
          loc' = [loc EXCEPT ![c] = StakeLocals(loc[c].runs + 1, sdk)]
    /\ cbs' = [cbs EXCEPT ![c] = <<>>]
    /\ hret' = [hret EXCEPT ![c] = Pending]
    /\ IF registered = ListRev
       THEN /\ hpc' = [hpc EXCEPT ![c] = "list"]
            /\ trace' = [trace EXCEPT ![c] = <<"getStakePoolList">>]
       ELSE /\ hpc' = [hpc EXCEPT ![c] = "compose"]
            /\ trace' = [trace EXCEPT ![c] = <<"composeState">>]
    /\ UNCHANGED <<registered, poolList>>
    /\ UNCHANGED providerVars

\* await provider.getStakePoolList(runtime) settles; a non-empty list
\* replaces poolList, and poolNames is computed from poolList.
StakeListSettle(c) ==
    /\ hpc[c] = "list"
    /\ \/ /\ StakeReject(c, Err("Error", 0))
          /\ UNCHANGED <<poolList, loc, trace>>
       \/ \E newPoolList \in ServerLists :
            /\ poolList' = IF DOMAIN newPoolList # {} THEN newPoolList ELSE poolList
            /\ loc' = [loc EXCEPT ![c].poolNames = PoolNames(poolList'),
                                  ![c].namesFrom = poolList']
            /\ hpc' = [hpc EXCEPT ![c] = "compose"]
            /\ trace' = [trace EXCEPT ![c] = Append(@, "composeState")]
            /\ UNCHANGED <<cbs, hret>>
    /\ UNCHANGED registered
    /\ UNCHANGED providerVars

\* await runtime.composeState / updateRecentMessageState settles; the
\* context is composed and generateObject called.
StakeComposed(c) ==
    /\ hpc[c] = "compose"
    /\ hpc' = [hpc EXCEPT ![c] = "extract"]
    /\ trace' = [trace EXCEPT ![c] = Append(@, "generateObject")]
    /\ UNCHANGED <<registered, poolList, loc, cbs, hret>>
    /\ UNCHANGED providerVars

\* From the lookup of the pool to the await of the deposit.
StakeLookup(c, name, locals) ==
    IF name.t # "string"
    THEN /\ StakeReject(c, Err("TypeError", 0))
         /\ loc' = [loc EXCEPT ![c] = locals]
         /\ UNCHANGED trace
    ELSE LET list == PoolsOf(registered)
             pool == Lookup(list, toLowerCase(name.x))
             found == [locals EXCEPT !.finalPoolName = name, !.pool = pool,
                                     !.lookedIn = list, !.looked = TRUE]
         IN  /\ loc' = [loc EXCEPT ![c] = found]
             /\ IF pool = NoPool
                THEN /\ StakeReturn(c, <<ErrorMsg("Invalid pool name", "Invalid pool name")>>,
                                    JsFalse)
                     /\ UNCHANGED trace
                ELSE IF ~IsPublicKey(locals.content.userAddress.x)
                THEN /\ StakeReject(c, Err("Invalid public key input", 0))
                     /\ UNCHANGED trace
                ELSE IF ~IsPublicKey(PoolEntry(registered, pool).address)
                THEN /\ StakeReturn(c, <<ErrorMsg("Error during staking", "TypeError")>>,
                                    JsFalse)
                     /\ UNCHANGED trace
                ELSE /\ hpc' = [hpc EXCEPT ![c] = "deposit"]
                     /\ trace' = [trace EXCEPT ![c] = Append(@, "deposit")]
                     /\ UNCHANGED <<cbs, hret>>

\* await generateObject settles with the extracted content.
StakeExtracted(c) ==
    /\ hpc[c] = "extract"
    /\ \E content \in Contents :
        LET locals == [loc[c] EXCEPT !.content = content] IN
        IF ~MatchesSchema(registered, StakeParamsSchema(content))
        THEN /\ StakeReject(c, Err("Error", 0))
             /\ UNCHANGED <<loc, trace>>
        ELSE IF ~isStakeParams(content)
        THEN /\ StakeReturn(c, <<ErrorMsg("Invalid content provided",
                                         "Invalid stake content")>>, JsFalse)
             /\ loc' = [loc EXCEPT ![c] = locals]
             /\ UNCHANGED trace
        ELSE IF NeedsSelection(registered, content.poolName)
        THEN /\ hpc' = [hpc EXCEPT ![c] = "info"]
             /\ loc' = [loc EXCEPT ![c] = [locals EXCEPT !.selecting = TRUE]]
             /\ trace' = [trace EXCEPT ![c] = Append(@, "getStakePoolInfo")]
             /\ UNCHANGED <<cbs, hret>>
        ELSE StakeLookup(c, content.poolName, locals)
    /\ UNCHANGED <<registered, poolList>>
    /\ UNCHANGED providerVars

\* await provider.getStakePoolInfo(runtime) settles.
StakeInfoSettle(c) ==
    /\ hpc[c] = "info"
    /\ \/ /\ StakeReject(c, Err("Error", 0))
          /\ UNCHANGED trace
       \/ /\ hpc' = [hpc EXCEPT ![c] = "select"]
          /\ trace' = [trace EXCEPT ![c] = Append(@, "generateObject")]
          /\ UNCHANGED <<cbs, hret>>
    /\ UNCHANGED <<registered, poolList, loc>>
    /\ UNCHANGED providerVars

\* await generateObject settles with the selected pool.
StakeSelected(c) ==
    /\ hpc[c] = "select"
    /\ \E selectedPool \in Selections :
        IF ~MatchesSchema(registered, SelectedPoolSchema(selectedPool))
        THEN /\ StakeReject(c, Err("Error", 0))
             /\ UNCHANGED <<loc, trace>>
        ELSE IF Falsy(selectedPool)
        THEN /\ StakeReturn(c, <<ErrorMsg("Invalid selected pool", "Invalid selected pool")>>,
                            JsFalse)
             /\ UNCHANGED <<loc, trace>>
        ELSE StakeLookup(c, selectedPool, loc[c])
    /\ UNCHANGED <<registered, poolList>>
    /\ UNCHANGED providerVars

\* await depositSolToMarinade / depositSolToPool settles.
StakeDepositSettle(c) ==
    /\ hpc[c] = "deposit"
    /\ IF loc[c].sdk = "ok"
       THEN /\ StakeReturn(c, <<ResponseMsg(registered, PoolEntry(registered, loc[c].pool),
                                  DepositTx(PoolEntry(registered, loc[c].pool),
                                            loc[c].content.userAddress.x,
                                            parseFloat(loc[c].content.amountSol)))>>, JsTrue)
            /\ loc' = [loc EXCEPT ![c].deposited = TRUE]
       ELSE /\ StakeReturn(c, <<ErrorMsg("Error during staking", "Error")>>, JsFalse)
            /\ UNCHANGED loc
    /\ UNCHANGED <<registered, poolList, trace>>
    /\ UNCHANGED providerVars

(***************************************************************************)
(* SpecStake: one of the three stake modules is loaded, and the runtime    *)
(* invokes its handler for two messages, whose invocations may overlap.    *)
(***************************************************************************)
InitStake ==
    \E a \in {ListRev, StaticRev, UtilsRev} :
        InitProvider(IF a = ListRev THEN "plain" ELSE "cached") /\ InitHandlers(a)

NextStake ==
    \/ \E c \in Callers : StakeStart(c)
    \/ \E c \in Callers : StakeListSettle(c)
    \/ \E c \in Callers : StakeComposed(c)
    \/ \E c \in Callers : StakeExtracted(c)
    \/ \E c \in Callers : StakeInfoSettle(c)
    \/ \E c \in Callers : StakeSelected(c)
    \/ \E c \in Callers : StakeDepositSettle(c)

SpecStake == InitStake /\ [][NextStake]_vars

(***************************************************************************)
(* The RESTAKE handler (actions/restake.ts).  One action per await of the  *)
(* handler and of getServerSignedTx; the wallet's balance is a fact of the *)
(* invocation's environment, and what the model, the key store, the RPC    *)
(* node and the Solayer endpoint answer is the environment's choice.       *)
(***************************************************************************)
RestakeRev == "RESTAKE"

decimals == 9

\* What the model may extract as content.amount.
Amounts == {Str("1"), Str("1.07"), Val("number", "2", 0), NULL}

\* The wallet balances in play, in lamports.
Balances == {0, 10 ^ decimals, 2 * 10 ^ decimals}

isRestakeContent(content) == content.amount.t \in {"string", "number"}

\* The amount in hundredths of a SOL: the decimal the text or number denotes.
Hundredths(amount) ==
    CASE amount.x = "1" -> 100
      [] amount.x = "1.07" -> 107
      [] amount.x = "2" -> 200

\* The amount times 10^decimals, in lamports, as a decimal number.
Lamports(amount) == Hundredths(amount) * 10 ^ (decimals - 2)

\* Number(content.amount) * Math.pow(10, decimals) in IEEE 754 doubles: the
\* nearest integer and what the double differs from it by, in units of
\* 10^-7.  1.07 * 10^9 is 1070000000.0000001; 1 * 10^9 and 2 * 10^9 are exact.
Product(amount) ==
    [whole |-> Lamports(amount), excess |-> IF amount.x = "1.07" THEN 1 ELSE 0]

\* BigInt(x) throws a RangeError unless x is an integer.
CanBigInt(x) == x.excess = 0

RestakeLocals(n, balance) ==
    [runs |-> n, balance |-> balance, content |-> [amount |-> UNDEFINED],
     wallet |-> "unread", balanceRead |-> "unread", adjustedAmount |-> 0,
     promise |-> Pending, resp |-> NoResponse]

\* The handler's catch: callback with error.message, return false.
RestakeCatch(c, message) ==
    /\ cbs' = [cbs EXCEPT ![c] = Append(@, ErrorMsg("Error restake", message))]
    /\ hret' = [hret EXCEPT ![c] = Fulfilled(JsFalse)]
    /\ hpc' = [hpc EXCEPT ![c] = "done"]

\* The handler is invoked and runs to its first await.
RestakeStart(c) ==
    /\ registered = RestakeRev
    /\ hpc[c] \in {"idle", "done"}
    /\ loc[c].runs < MaxRuns
    /\ \E balance \in Balances :
          loc' = [loc EXCEPT ![c] = RestakeLocals(loc[c].runs + 1, balance)]
    /\ cbs' = [cbs EXCEPT ![c] = <<>>]
    /\ hret' = [hret EXCEPT ![c] = Pending]
    /\ hpc' = [hpc EXCEPT ![c] = "compose"]
    /\ trace' = [trace EXCEPT ![c] = <<"composeState">>]
    /\ UNCHANGED <<registered, poolList>>
    /\ UNCHANGED providerVars

\* await runtime.composeState / updateRecentMessageState settles.
RestakeComposed(c) ==
    /\ registered = RestakeRev
    /\ hpc[c] = "compose"
    /\ hpc' = [hpc EXCEPT ![c] = "extract"]
    /\ trace' = [trace EXCEPT ![c] = Append(@, "generateObject")]
    /\ UNCHANGED <<registered, poolList, loc, cbs, hret>>
    /\ UNCHANGED providerVars

\* await generateObjectDeprecated settles with the content.
RestakeExtracted(c) ==
    /\ registered = RestakeRev
    /\ hpc[c] = "extract"
    /\ \E amount \in Amounts :
        /\ loc' = [loc EXCEPT ![c].content = [amount |-> amount]]
        /\ IF ~isRestakeContent([amount |-> amount])
           THEN /\ cbs' = [cbs EXCEPT ![c] =
                             Append(@, ErrorMsg("Invalid content provided",
                                                "Invalid restake content"))]
                /\ hret' = [hret EXCEPT ![c] = Fulfilled(JsFalse)]
                /\ hpc' = [hpc EXCEPT ![c] = "done"]
                /\ UNCHANGED trace
           ELSE /\ hpc' = [hpc EXCEPT ![c] = "wallet"]
                /\ trace' = [trace EXCEPT ![c] = Append(@, "getWalletKey")]
                /\ UNCHANGED <<cbs, hret>>
    /\ UNCHANGED <<registered, poolList>>
    /\ UNCHANGED providerVars

\* await getWalletKey settles; with the key, adjustedAmount is computed and
\* connection.getBalance called.
RestakeWalletSettle(c) ==
    /\ registered = RestakeRev
    /\ hpc[c] = "wallet"
    /\ \/ /\ RestakeCatch(c, "Error")
          /\ loc' = [loc EXCEPT ![c].wallet = "failed"]
          /\ UNCHANGED trace
       \/ IF ~CanBigInt(Product(loc[c].content.amount))
          THEN /\ RestakeCatch(c, "RangeError")
               /\ loc' = [loc EXCEPT ![c].wallet = "ok"]
               /\ UNCHANGED trace
          ELSE /\ loc' = [loc EXCEPT ![c].wallet = "ok",
                                     ![c].adjustedAmount = Product(loc[c].content.amount).whole]
               /\ hpc' = [hpc EXCEPT ![c] = "balance"]
               /\ trace' = [trace EXCEPT ![c] = Append(@, "getBalance")]
               /\ UNCHANGED <<cbs, hret>>
    /\ UNCHANGED <<registered, poolList>>
    /\ UNCHANGED providerVars

\* What follows a balance that suffices: the check, then getServerSignedTx.
AfterBalance == <<"balance checked", "getServerSignedTx">>

\* await connection.getBalance settles; the balance is compared, and
\* getServerSignedTx runs to its await fetch.
RestakeBalanceSettle(c) ==
    /\ registered = RestakeRev
    /\ hpc[c] = "balance"
    /\ \/ /\ RestakeCatch(c, "Error")
          /\ loc' = [loc EXCEPT ![c].balanceRead = "failed"]
          /\ UNCHANGED trace
       \/ IF loc[c].balance < loc[c].adjustedAmount
          THEN /\ RestakeCatch(c, "Insufficient balance")
               /\ loc' = [loc EXCEPT ![c].balanceRead = "ok"]
               /\ trace' = [trace EXCEPT ![c] = Append(@, "balance checked")]
          ELSE /\ loc' = [loc EXCEPT ![c].balanceRead = "ok"]
               /\ hpc' = [hpc EXCEPT ![c] = "solayer"]
               /\ trace' = [trace EXCEPT ![c] = @ \o AfterBalance]
               /\ UNCHANGED <<cbs, hret>>
    /\ UNCHANGED <<registered, poolList>>
    /\ UNCHANGED providerVars

\* The catch of getServerSignedTx's executor: throw new Error(e) inside the
\* async executor rejects the executor's own promise, which nothing awaits;
\* the promise getServerSignedTx returned is left as it was.
ExecutorCatch(promise, e) == promise

\* getServerSignedTx's executor threw: the promise after its catch, and the
\* handler with it.
RestakeExecutorThrew(c, e) ==
    LET promise == ExecutorCatch(loc[c].promise, e) IN
    /\ loc' = [loc EXCEPT ![c].promise = promise, ![c].resp = NoResponse]
    /\ IF promise.state = "rejected"
       THEN RestakeCatch(c, e.x)
       ELSE /\ hpc' = [hpc EXCEPT ![c] = "awaiting"]
            /\ UNCHANGED <<cbs, hret>>
    /\ UNCHANGED trace

\* getServerSignedTx's await fetch settles.
RestakeFetchSettle(c) ==
    /\ registered = RestakeRev
    /\ hpc[c] = "solayer"
    /\ \E r \in Outcomes :
        IF r = NoResponse
        THEN RestakeExecutorThrew(c, Err("TypeError", 0))
        ELSE /\ loc' = [loc EXCEPT ![c].resp = r]
             /\ hpc' = [hpc EXCEPT ![c] = "solayerJson"]
             /\ UNCHANGED <<cbs, hret, trace>>
    /\ UNCHANGED <<registered, poolList>>
    /\ UNCHANGED providerVars

\* Mutant of SignAndSend: the transaction is sent before it is signed.
SendThenSign == <<"sendTransaction", "sign">>

\* transaction.sign([senderKeypair]); await connection.sendTransaction(...)
SignAndSend == <<"sign", "sendTransaction">>

\* getServerSignedTx's await response.json() settles; on an ok response the
\* promise resolves and the handler deserializes, signs and sends.
RestakeJsonSettle(c) ==
    /\ registered = RestakeRev
    /\ hpc[c] = "solayerJson"
    /\ LET r == loc[c].resp
           res == JsonParse(r.body)
       IN  IF ~JsonOk(r.body)
           THEN RestakeExecutorThrew(c, Err("SyntaxError", 0))
           ELSE IF ~r.ok
           THEN RestakeExecutorThrew(c, Err("error", 0))
           ELSE /\ loc' = [loc EXCEPT ![c].promise = Fulfilled(res), ![c].resp = NoResponse]
                /\ IF ~CanRead(res) \/ Field(res) = UNDEFINED
                   THEN /\ RestakeCatch(c, "TypeError")
                        /\ UNCHANGED trace
                   ELSE /\ hpc' = [hpc EXCEPT ![c] = "send"]
                        /\ trace' = [trace EXCEPT ![c] = @ \o SignAndSend]
                        /\ UNCHANGED <<cbs, hret>>
    /\ UNCHANGED <<registered, poolList>>
    /\ UNCHANGED providerVars

\* The callback of a successful restake: success: true and the signature.
SuccessMsg == Msg("Successfully restake", "", "solayer", [bs58 |-> "signature"])

\* await connection.sendTransaction settles.
RestakeSendSettle(c) ==
    /\ registered = RestakeRev
    /\ hpc[c] = "send"
    /\ \/ /\ RestakeCatch(c, "Error")
          /\ UNCHANGED trace
       \/ /\ cbs' = [cbs EXCEPT ![c] = Append(@, SuccessMsg)]
          /\ hret' = [hret EXCEPT ![c] = Fulfilled(JsTrue)]
          /\ hpc' = [hpc EXCEPT ![c] = "done"]
          /\ trace' = [trace EXCEPT ![c] = Append(@, "sendTransaction returned")]
    /\ UNCHANGED <<registered, poolList, loc>>
    /\ UNCHANGED providerVars

(***************************************************************************)
(* SpecRestake: the RESTAKE module is loaded and the runtime invokes its   *)
(* handler for two messages.  SpecRestakeLive adds what the event loop and *)
(* the environment guarantee: a continuation whose await has settled runs, *)
(* and every external call settles.                                        *)
(***************************************************************************)
InitRestake == InitProvider("plain") /\ InitHandlers(RestakeRev)

RestakeStep(c) ==
    \/ RestakeStart(c)
    \/ RestakeComposed(c)
    \/ RestakeExtracted(c)
    \/ RestakeWalletSettle(c)
    \/ RestakeBalanceSettle(c)
    \/ RestakeFetchSettle(c)
    \/ RestakeJsonSettle(c)
    \/ RestakeSendSettle(c)

NextRestake == \E c \in Callers : RestakeStep(c)

SpecRestake == InitRestake /\ [][NextRestake]_vars

SpecRestakeLive == SpecRestake /\ \A c \in Callers : WF_vars(RestakeStep(c))

(***************************************************************************)
(* The claims.                                                             *)
(***************************************************************************)
Last(log) == log[Len(log)]

\* What the outcome of fetch is, whatever the code makes of it: a success is
\* a response that is ok and whose body parses as JSON.
Succeeded(out) == out # NoResponse /\ out.ok /\ JsonOk(out.body)

TtlMs == CACHE_TTL * 1000

Began(c) == calls[c] > 0

\* C1: fetchWithRetry issues at most MAX_RETRIES requests, every attempt
\* before the latest one failed (a non-ok status, an unparsable body or no
\* response), it returns exactly when an attempt succeeded, with the body
\* that attempt parsed, and has no request in flight once it returned.
C1_FixedRetryLoop ==
    \A c \in Callers :
        LET log == attempts[c] IN
        /\ Len(log) <= MAX_RETRIES
        /\ \A k \in 1 .. Len(log) - 1 :
              log[k].res # "pending" /\ ~Succeeded(log[k].out)
        /\ \A k \in 1 .. Len(log) :
              log[k].res \notin {"pending", "ok"} => ~Succeeded(log[k].out)
        /\ Request(c, PoolInfoUrl) \in net => pc[c] = "fetch"
        /\ fwr[c].state = "fulfilled" =>
              /\ log # <<>>
              /\ Succeeded(Last(log).out)
              /\ fwr[c].v = JsonParse(Last(log).out.body)
              /\ Request(c, PoolInfoUrl) \notin net
              /\ pc[c] = "done"
        /\ (log # <<>> /\ Last(log).res # "pending" /\ Succeeded(Last(log).out)) =>
              fwr[c].state = "fulfilled"

C1_Witness ==
    \E c \in Callers :
        /\ fwr[c].state = "fulfilled"
        /\ Len(attempts[c]) = MAX_RETRIES
        /\ attempts[c][1].res = "HttpError"
        /\ attempts[c][2].res = "SyntaxError"
        /\ fwr[c].v = Obj("B")

\* C2: when all MAX_RETRIES attempts failed, fetchWithRetry throws the error
\* the last attempt caught and returns nothing; it throws in no other case.
C2_ThrowsLastError ==
    \A c \in Callers :
        LET log == attempts[c] IN
        /\ fwr[c].state = "rejected" =>
              /\ Len(log) = MAX_RETRIES
              /\ \A k \in 1 .. MAX_RETRIES : ~Succeeded(log[k].out)
              /\ fwr[c].v = log[MAX_RETRIES].v
              /\ fwr[c].v.n = MAX_RETRIES - 1
              /\ via[c] = "getStakePoolInfo" => ret[c] = Rejected(log[MAX_RETRIES].v)
        /\ (/\ Len(log) = MAX_RETRIES
            /\ \A k \in 1 .. MAX_RETRIES :
                  log[k].res # "pending" /\ ~Succeeded(log[k].out)) =>
              /\ fwr[c].state # "fulfilled"
              /\ pc[c] = "done" => fwr[c].state = "rejected"

C2_Witness ==
    \E c \in Callers :
        /\ fwr[c].state = "rejected"
        /\ attempts[c][1].res = "TypeError"
        /\ attempts[c][2].res = "HttpError"
        /\ fwr[c].v = Err("SyntaxError", 2)
        /\ ret[c].state = "rejected"

\* C3: every attempt after the first calls fetch at least RETRY_DELAY ms
\* after the attempt before it failed, and a pending wait is due RETRY_DELAY
\* ms after that failure.
C3_DelayBetweenRetries ==
    \A c \in Callers :
        /\ Len(attempts[c]) >= 2 => waited[c] >= RETRY_DELAY
        /\ pc[c] = "sleep" => timer[c] >= failedAt[c] + RETRY_DELAY

C3_Witness ==
    \E c \in Callers :
        /\ pc[c] = "fetch"
        /\ Len(attempts[c]) = MAX_RETRIES
        /\ waited[c] = RETRY_DELAY

\* C4 (as claimed): a getStakePoolInfo call that begins no later than
\* CACHE_TTL seconds after the latest fetch on the instance returned settles
\* at once with the data of that fetch and issues no HTTP request.
C4_HitWithinTtl ==
    \A c \in Callers :
        (Began(c) /\ via[c] = "getStakePoolInfo" /\ seen[c].has /\ seen[c].age <= TtlMs) =>
            /\ pc[c] = "done"
            /\ ret[c] = Fulfilled(seen[c].v)
            /\ attempts[c] = <<>>

\* C5: a call served from the cache returns the data of the latest fetch,
\* which is then at most CACHE_TTL seconds old; a call that begins later
\* fetches again; and the cache holds exactly the latest fetched data, with
\* an expiry CACHE_TTL seconds after that fetch returned.
C5_CacheExpiry ==
    /\ \A c \in Callers :
          /\ (Began(c) /\ attempts[c] = <<>>) =>
                /\ ret[c].state = "fulfilled"
                /\ seen[c].has
                /\ ret[c].v = seen[c].v
                /\ seen[c].age <= TtlMs
          /\ (Began(c) /\ seen[c].has /\ seen[c].age > TtlMs) => attempts[c] # <<>>
    /\ LET f == fetched["getStakePoolInfo"]
           m == cache[ModuleInstance]
       IN  /\ cacheKey \in DOMAIN m =>
                 f.has /\ m[cacheKey] = [v |-> f.v, t |-> f.at + TtlMs]
           /\ (f.has /\ now <= f.at + TtlMs) => cacheKey \in DOMAIN m

C5_Witness ==
    \E c \in Callers :
        /\ seen[c].has /\ seen[c].age > TtlMs
        /\ pc[c] = "done"
        /\ ret[c].state = "fulfilled"
        /\ ret[c].v # seen[c].v
        /\ cacheKey \in DOMAIN cache[ModuleInstance]
        /\ cache[ModuleInstance][cacheKey] = [v |-> ret[c].v, t |-> now + TtlMs]

\* C6 (as claimed): in the revision without a cache, a getStakePoolInfo call
\* made within CACHE_TTL seconds of an earlier fetch issues no request.
C6_PlainCallsOnce ==
    \A c \in Callers :
        (/\ build = "plain" /\ Began(c) /\ via[c] = "getStakePoolInfo"
         /\ seen[c].has /\ Truthy(seen[c].v) /\ seen[c].age <= TtlMs) =>
            attempts[c] = <<>>

C8_GetReusesCache ==
    \A c \in Callers :
        (/\ build = "cached" /\ Began(c) /\ via[c] = "get"
         /\ seen[c].has /\ Truthy(seen[c].v) /\ seen[c].age <= TtlMs) =>
            /\ attempts[c] = <<>>
            /\ ret[c] = Fulfilled(seen[c].v)

\* The pool a request of the aggregating fetchPoolData is made for, as its
\* position in STAKE_POOLS.
PoolOf(target) ==
    IF target \in {ApyUrl, TvlUrl}
    THEN CHOOSE k \in DOMAIN StakePoolOrder : StakePoolOrder[k] = "marinade"
    ELSE CHOOSE k \in DOMAIN StakePoolOrder : StakePoolOrder[k] = target

InFlight(c) == {r \in net : r.by = c}

\* C9: within one fetchPoolData call of the aggregating provider the pools are
\* processed one after another in STAKE_POOLS order: the call never has more
\* than one request in flight, and the one in flight is the latest it made;
\* its requests go through the pools in order, none skipped and none gone
\* back to, one request per stake pool and at most MAX_RETRIES per Marinade
\* endpoint; no APY request follows a TVL request, and the TVL request is made
\* only once the APY fetchWithRetry has returned its data.
C9_SequentialFetches ==
    \A c \in Callers :
        LET log == reqLog[c] IN
        /\ Cardinality(InFlight(c)) <= 1
        /\ \A r \in InFlight(c) : log # <<>> /\ r.url = log[Len(log)]
        /\ \A j \in DOMAIN log : \A k \in DOMAIN log :
              j < k => /\ PoolOf(log[j]) <= PoolOf(log[k])
                       /\ ~(log[j] = TvlUrl /\ log[k] = ApyUrl)
        /\ \A j \in DOMAIN log : \A q \in 1..PoolOf(log[j]) :
              \E k \in 1..j : PoolOf(log[k]) = q
        /\ \A t \in {ApyUrl, TvlUrl} :
              Cardinality({j \in DOMAIN log : log[j] = t}) <= MAX_RETRIES
        /\ \A j \in DOMAIN log : \A k \in DOMAIN log :
              (j # k /\ log[j] = log[k]) => log[j] \in {ApyUrl, TvlUrl}
        /\ (log # <<>> /\ pc[c] = "done") => PoolOf(log[Len(log)]) = Len(StakePoolOrder)
        /\ (log # <<>> /\ pc[c] # "done") => frame[c].ix = PoolOf(log[Len(log)])
        /\ (log # <<>> /\ log[Len(log)] = TvlUrl /\ pc[c] # "done")
              => fwr[c].state = "fulfilled" /\ frame[c].apyData = fwr[c].v

\* A call that asked the RPC node for the four stake pools, got Marinade's
\* APY at the third attempt, then its TVL, and returned all five pools.
C9_Witness ==
    \E c \in Callers :
        /\ pc[c] = "done"
        /\ reqLog[c] = <<"jito", "blaze", "marginfi", "jpool", ApyUrl, ApyUrl, ApyUrl, TvlUrl>>
        /\ DOMAIN frame[c].pools = {StakePoolOrder[k] : k \in DOMAIN StakePoolOrder}


\* C10: two getStakePoolInfo calls that overlap on the instance, each begun
\* with nothing cached, each issue their own request, each return the body
\* of their own last attempt, and once both have settled the cache holds
\* the data of the one that returned last.
Missed(c) == Began(c) /\ (~seen[c].has \/ seen[c].age > TtlMs)

C10_NoCoordination ==
    \A c, d \in Callers :
        (c # d /\ overlapped[c] /\ overlapped[d] /\ Missed(c) /\ Missed(d)) =>
            /\ attempts[c] # <<>>
            /\ pc[c] = "fetch" => Request(c, PoolInfoUrl) \in net
            /\ ret[c].state = "fulfilled" =>
                  ret[c].v = JsonParse(Last(attempts[c]).out.body)
            /\ (pc[c] = "done" /\ pc[d] = "done" /\ lastDone = c
                    /\ ret[c].state = "fulfilled") =>
                  /\ cacheKey \in DOMAIN cache[ModuleInstance]
                  /\ cache[ModuleInstance][cacheKey].v = ret[c].v

C10_Witness ==
    /\ overlapped["h1"] /\ overlapped["h2"] /\ Missed("h1") /\ Missed("h2")
    /\ pc["h1"] = "done" /\ pc["h2"] = "done"
    /\ ret["h1"] = Fulfilled(Obj("A"))
    /\ ret["h2"] = Fulfilled(Obj("B"))
    /\ lastDone = "h2"
    /\ cache[ModuleInstance][cacheKey].v = Obj("B")

\* The handler of caller c has been invoked in a stake module.
Invoked(c) == hpc[c] # "idle"

\* The pool the name the handler settled on denotes in the list it looked in.
Resolves(l) ==
    /\ l.looked
    /\ l.finalPoolName.t = "string"
    /\ toLowerCase(l.finalPoolName.x) \in DOMAIN l.lookedIn
    /\ l.pool = l.lookedIn[toLowerCase(l.finalPoolName.x)]

\* The one callback of a successful stake: it carries the pool's protocol
\* and the encoded transaction that deposits the user's amount in that pool.
CarriesTx(msgs, l) ==
    /\ Len(msgs) = 1
    /\ msgs[1].error = ""
    /\ msgs[1].protocol = l.pool.protocolName
    /\ msgs[1].transaction.bs58.from = l.content.userAddress.x
    /\ msgs[1].transaction.bs58.amountSol = Val("number", l.content.amountSol.x, 0)
    /\ msgs[1].transaction.bs58.program =
          IF l.pool.protocolName = "Marinade" THEN "marinade" ELSE l.pool.address

\* C11: in both STAKE_SOL modules, a handler whose extracted parameters pass
\* isStakeParams, whose pool name resolves to a pool of the list it looks in
\* and whose deposit call succeeds passes exactly one message to callback, the
\* encoded transaction for that pool, and returns true; and a handler that
\* returned true did all of that.
C11_ExtractBuildReply ==
    \A c \in Callers :
        (registered \in {ListRev, StaticRev} /\ Invoked(c)) =>
            /\ (/\ hpc[c] = "done"
                /\ isStakeParams(loc[c].content)
                /\ Resolves(loc[c])
                /\ "deposit" \in {trace[c][k] : k \in DOMAIN trace[c]}
                /\ loc[c].sdk = "ok")
               => (hret[c] = Fulfilled(JsTrue) /\ CarriesTx(cbs[c], loc[c]))
            /\ hret[c] = Fulfilled(JsTrue)
               => /\ isStakeParams(loc[c].content)
                  /\ Resolves(loc[c])
                  /\ loc[c].deposited
                  /\ CarriesTx(cbs[c], loc[c])
            /\ loc[c].looked => (loc[c].pool = NoPool \/ Resolves(loc[c]))

\* A STAKE_SOL handler that selected the pool automatically, built the
\* deposit and returned true.
C11_Witness ==
    \E c \in Callers :
        /\ registered \in {ListRev, StaticRev}
        /\ Invoked(c)
        /\ hret[c] = Fulfilled(JsTrue)
        /\ loc[c].selecting
        /\ loc[c].pool.protocolName = "Blaze"
        /\ Len(cbs[c]) = 1

\* C12: the handler built by createStakeAction, given valid parameters that
\* name a configured pool and an SDK whose deposit succeeds, passes the
\* "completed successfully" message with the transaction to callback and
\* returns true.
C12_StakesInChosenPool ==
    \A c \in Callers :
        (/\ registered = UtilsRev
         /\ Invoked(c)
         /\ hpc[c] = "done"
         /\ isStakeParams(loc[c].content)
         /\ IsPublicKey(loc[c].content.userAddress.x)
         /\ Resolves(loc[c])
         /\ loc[c].sdk = "ok")
        => (hret[c] = Fulfilled(JsTrue) /\ CarriesTx(cbs[c], loc[c]))

\* C13: the handler built by createStakeAction treats an extracted poolName
\* of null like an empty one: it goes to the automatic selection and its
\* promise does not reject.
C13_NullPoolNameSelects ==
    \A c \in Callers :
        (/\ registered = UtilsRev
         /\ Invoked(c)
         /\ isStakeParams(loc[c].content)
         /\ loc[c].content.poolName = NULL)
        => (loc[c].selecting /\ hret[c].state # "rejected")

\* C18: in the STAKE_SOL module that fetches the pool list, the list an
\* invocation looks the pool up in is the list it computed poolNames from.
C18_SameListForNamesAndLookup ==
    \A c \in Callers :
        (registered = ListRev /\ Invoked(c) /\ loc[c].looked)
        => loc[c].lookedIn = loc[c].namesFrom

\* In the sequence tr every occurrence of b has an occurrence of a before it.
Precedes(tr, a, b) ==
    \A k \in DOMAIN tr : tr[k] = b => \E j \in 1..(k - 1) : tr[j] = a

Times(tr, a) == Cardinality({k \in DOMAIN tr : tr[k] = a})

\* C14: in one RESTAKE invocation the balance is read and checked before
\* getServerSignedTx asks the Solayer endpoint, which is before the signing,
\* which is before sendTransaction; sendTransaction is called at most once;
\* and the success callback, passed at most once, comes only after
\* sendTransaction returned, as the last thing the handler did.
C14_RestakeOrdering ==
    \A c \in Callers :
        (registered = RestakeRev /\ Invoked(c)) =>
            /\ Precedes(trace[c], "getBalance", "balance checked")
            /\ Precedes(trace[c], "balance checked", "getServerSignedTx")
            /\ Precedes(trace[c], "getServerSignedTx", "sign")
            /\ Precedes(trace[c], "sign", "sendTransaction")
            /\ Precedes(trace[c], "sendTransaction", "sendTransaction returned")
            /\ Times(trace[c], "sendTransaction") <= 1
            /\ Times(cbs[c], SuccessMsg) <= 1
            /\ Times(cbs[c], SuccessMsg) = 1 =>
                  /\ trace[c][Len(trace[c])] = "sendTransaction returned"
                  /\ hret[c] = Fulfilled(JsTrue)
            /\ hret[c] = Fulfilled(JsTrue) => cbs[c] = <<SuccessMsg>>

\* A RESTAKE invocation that went all the way: balance, Solayer, signature,
\* sendTransaction, success callback.
C14_Witness ==
    \E c \in Callers :
        /\ registered = RestakeRev
        /\ hret[c] = Fulfilled(JsTrue)
        /\ trace[c] = <<"composeState", "generateObject", "getWalletKey", "getBalance",
                        "balance checked", "getServerSignedTx", "sign", "sendTransaction",
                        "sendTransaction returned">>
        /\ cbs[c] = <<SuccessMsg>>

\* C15: every invocation of the RESTAKE handler eventually returns a
\* boolean, also when the request to the Solayer endpoint fails.
C15_EventuallyReturns ==
    \A c \in Callers :
        [](hpc[c] \in {"solayer", "solayerJson", "awaiting"}
              => <>(hpc[c] = "done" /\ hret[c] \in {Fulfilled(JsTrue), Fulfilled(JsFalse)}))

\* C16: a RESTAKE invocation whose wallet holds fewer lamports than the
\* requested amount times 10^9 passes the error "Insufficient balance" to
\* callback and returns false, without asking Solayer or sending anything.
C16_InsufficientBalance ==
    \A c \in Callers :
        (/\ registered = RestakeRev
         /\ Invoked(c)
         /\ hpc[c] = "done"
         /\ isRestakeContent(loc[c].content)
         /\ loc[c].wallet = "ok"
         /\ loc[c].balanceRead # "failed"
         /\ loc[c].balance < Lamports(loc[c].content.amount))
        => /\ cbs[c] = <<ErrorMsg("Error restake", "Insufficient balance")>>
           /\ hret[c] = Fulfilled(JsFalse)
           /\ Times(trace[c], "getServerSignedTx") = 0
           /\ Times(trace[c], "sendTransaction") = 0

\* A walk of fetchPoolData over the stake pools has returned to caller c.
Walked(c) == pc[c] = "done" /\ reqLog[c] # <<>>

AllPools == {StakePoolOrder[k] : k \in DOMAIN StakePoolOrder}

\* The walk of caller c asked for every pool, whatever became of the pools
\* before it, and fetchPoolData returned data holding the pools it gathered.
Tolerant(c) ==
    /\ \A key \in AllPools : \E j \in DOMAIN reqLog[c] :
           StakePoolOrder[PoolOf(reqLog[c][j])] = key
    /\ frame[c].succeeded \cup frame[c].failed = AllPools
    /\ frame[c].succeeded \cap frame[c].failed = {}
    /\ ret[c].state = "fulfilled"
    /\ via[c] = "getStakePoolInfo" => ret[c].v.pools = frame[c].pools
    /\ fetched[via[c]].has /\ fetched[via[c]].v.pools = frame[c].pools

\* C17 (as stated): in the aggregating fetchPoolData a pool whose fetch failed
\* after its retries is the only thing left out: every pool is still asked
\* for, fetchPoolData returns, and the pools map holds exactly the pools whose
\* fetch succeeded.
C17_ExactlyTheFetchedPools ==
    \A c \in Callers :
        Walked(c) => /\ Tolerant(c)
                     /\ DOMAIN frame[c].pools = frame[c].succeeded

\* C17 (amended): as above, but the pools map holds exactly the pools whose
\* fetch succeeded with no null body: Marinade answered by null is left out
\* although both of its fetches returned.
C17_ExactlyTheReadablePools ==
    \A c \in Callers :
        Walked(c) => /\ Tolerant(c)
                     /\ DOMAIN frame[c].pools = frame[c].succeeded \ frame[c].nulls
                     /\ frame[c].nulls \subseteq {"marinade"}

\* A walk in which the RPC node failed for blaze and Marinade's APY endpoint
\* failed three times: the other three pools were fetched and returned.
C17_Witness ==
    \E c \in Callers :
        /\ Walked(c)
        /\ via[c] = "getStakePoolInfo"
        /\ frame[c].failed = {"blaze", "marinade"}
        /\ DOMAIN ret[c].v.pools = {"jito", "marginfi", "jpool"}

====
